---- MODULE Spec2Model ----
(***************************************************************************)
(* A model of the Hyperliquid info client (hyperliquid_info_client.py) and *)
(* of the HYPE funding-rate exporter (main.py).                            *)
(*                                                                         *)
(* SpecClient follows one call of a client method: the argument check,     *)
(* the retry loop of _make_request one transport attempt at a time, and    *)
(* the method's own handling of the response.                              *)
(*                                                                         *)
(* Times slept are kept in milliseconds.  Strings that the code inspects   *)
(* character by character (addresses) are sequences of one-character       *)
(* strings.                                                                *)
(***************************************************************************)
EXTENDS Integers, Sequences, FiniteSets, TLC

VARIABLES
    max_retries,        \* HyperliquidInfoClient.max_retries
    json_error_is_request_exception,
                        \* the installed requests library raises its own
                        \* JSONDecodeError (a RequestException) from
                        \* response.json(): true from requests 2.27 on
    pc,                 \* "idle", "request", "returned", "raised"
    method,             \* the client method called
    user,               \* its address argument (a sequence of characters)
    token_id,           \* the argument of get_token_info (likewise)
    oid,                \* of query_order_status: <<>> for None, <<n>>
    cloid,              \* of query_order_status: <<>> for None, <<s>>
    attempt,            \* the loop variable of _make_request
    transport_calls,    \* session.post calls made so far
    transport_failures, \* of these, how many failed in transport
    outcome,            \* what the last transport attempt produced
    sleeps,             \* every time.sleep so far: [why, ms]
    response,           \* what _make_request returned to the method
    result,             \* the value the method returned
    error,              \* the exception the method raised
    warnings,           \* logger.warning calls made while parsing records
    \* ---- the exporter (main.py) ----
    x_pc,               \* "start", "probe", "chunks", "done", "failed"
    mock,               \* the transport is the mock of the end-to-end scenario
    force_start_date,   \* <<>> for None, <<t>> for the time t
    chunk_days,
    now,                \* datetime.now(), in time units
    probe,              \* index into test_dates of the next candidate
    probes,             \* the sample windows requested by find_earliest_funding_data
    start_time,
    end_time,
    current_start,
    windows,            \* the windows requested by fetch_funding_rates_in_chunks
    chunk_data,         \* what the request of the last window returned
                        \* (Unset before the first window and if it raised)
    all_funding_rates,  \* what fetch_funding_rates_in_chunks has gathered
    saved,              \* <<>>, or <<the list save_to_csv was called with>>
    csv,                \* the output file
    x_error             \* the exception that ended the run

client_vars == <<max_retries, json_error_is_request_exception, pc, method, user,
                 token_id, oid, cloid, attempt, transport_calls, transport_failures, outcome, sleeps,
                 response, result, error, warnings>>

export_vars == <<x_pc, mock, force_start_date, chunk_days, now, probe, probes,
                 start_time, end_time, current_start, windows, chunk_data,
                 all_funding_rates, saved, csv, x_error>>

vars == <<client_vars, export_vars>>

(***************************************************************************)
(* Bounds of the model.                                                    *)
(***************************************************************************)
MaxRetriesBound == 3
MaxBatch == 3
MaxSpan == 5            \* the furthest a start time lies before now
MaxPerWindow == 2       \* entries in the answer for one window
MaxEntries == 3         \* entries gathered in one run
MaxWindows == 3         \* windows of one run
DayMs == 2              \* time units in a day (the code counts milliseconds)

(***************************************************************************)
(* Program constants.                                                      *)
(***************************************************************************)
AddressLen == 42
RateLimitDelayMs == 100
BackoffUnitMs == 1000

\* a JSON value as far as the code looks at it: its top-level shape and,
\* for the order and fill endpoints, the entries it carries
NoValue == [shape |-> "None", data |-> <<>>]
Unset == [shape |-> "unset", data |-> <<>>]
NoError == "none"

(***************************************************************************)
(* Addresses.                                                              *)
(***************************************************************************)
HexChars == {"0", "1", "2", "3", "4", "5", "6", "7", "8", "9",
             "a", "b", "c", "d", "e", "f", "A", "B", "C", "D", "E", "F"}

\* body of n characters: n-1 fillers and a last character
Body(n, filler, last) ==
    [i \in 1..n |-> IF i = n THEN last ELSE filler]

Prefixes == {<<"0", "x">>, <<"0", "X">>, <<"1", "x">>, <<"x", "0">>, <<"0">>, <<>>}

Addresses ==
    {<<>>} \cup
    {p \o Body(n, "a", l) :
        p \in Prefixes, n \in (AddressLen - 3)..(AddressLen - 1), l \in {"a", "g"}}

\* the "^0x[0-9a-fA-F]{40}$" shape of an address
MatchesHexAddress(u) ==
    /\ Len(u) = AddressLen
    /\ u[1] = "0" /\ u[2] = "x"
    /\ \A i \in 3..Len(u) : u[i] \in HexChars

StartsWith0x(u) == Len(u) >= 2 /\ u[1] = "0" /\ u[2] = "x"

\* the check without its length test
RejectedByPrefixOnly(u) == Len(u) = 0 \/ ~StartsWith0x(u)

\* if not user or len(user) != 42 or not user.startswith('0x')
UserAddressRejected(u) ==
    \/ Len(u) = 0
    \/ Len(u) # AddressLen
    \/ ~StartsWith0x(u)

\* the length a token id must have
TokenIdLen == 34

TokenIds ==
    {<<>>} \cup
    {p \o Body(n, "0", l) :
        p \in Prefixes, n \in (TokenIdLen - 3)..(TokenIdLen - 1), l \in {"6", "g"}}

\* the check without its length test
TokenIdRejectedByPrefixOnly(t) == ~StartsWith0x(t)

\* if not token_id.startswith('0x') or len(token_id) != 34
TokenIdRejected(t) == ~StartsWith0x(t) \/ Len(t) # TokenIdLen

\* the identifiers query_order_status may be called with
Oids == {<<>>, <<12345>>}
Cloids == {<<>>, <<"my_order_123">>}

\* if oid is None and cloid is None
OrderIdentifierMissing(o, c) == o = <<>> /\ c = <<>>

AddressScopedMethods ==
    {"get_user_perpetuals_account_summary", "get_user_funding_history",
     "get_user_non_funding_ledger_updates", "get_active_asset_data",
     "get_open_orders", "get_open_orders_with_frontend", "get_user_fills",
     "get_user_fills_by_time", "get_user_historical_data",
     "get_user_portfolio", "get_user_positions"}

OrderMethods == {"get_open_orders"}
FillMethods == {"get_user_fills", "get_user_fills_by_time"}


ContextMethods == {"get_perpetuals_asset_contexts"}

Methods == AddressScopedMethods \cup {"get_funding_history"} \cup ContextMethods

(***************************************************************************)
(* Order and fill entries of a response, and their coercion into records.  *)
(* A field is a JSON number ("num"), a numeric string ("numstr"), a        *)
(* non-numeric string ("badstr"), null ("null") or absent ("missing").     *)
(***************************************************************************)
EntryShapes ==
    { [sz |-> "num",    px |-> "numstr", fee |-> "missing"],
      [sz |-> "badstr", px |-> "num",    fee |-> "num"],
      [sz |-> "null",   px |-> "num",    fee |-> "num"],
      [sz |-> "num",    px |-> "badstr", fee |-> "num"],
      [sz |-> "num",    px |-> "num",    fee |-> "null"] }

\* the entries of a batch carry the order ids 1, 2, ... in order
Batches ==
    UNION { { [i \in 1..n |-> [oid |-> i, sz |-> f[i].sz, px |-> f[i].px,
                                fee |-> f[i].fee]] :
                f \in [1..n -> EntryShapes] } : n \in 0..MaxBatch }

\* float(entry.get(field, 0))
FloatOf(v) ==
    CASE v \in {"num", "numstr", "missing"} -> "ok"
      [] v = "badstr" -> "ValueError"
      [] v = "null" -> "TypeError"

\* OrderInfo(... sz=float(..), limit_px=float(..) ...): the first failure wins
CoerceOrder(e) ==
    IF FloatOf(e.sz) # "ok" THEN FloatOf(e.sz) ELSE FloatOf(e.px)

\* FillInfo(... sz=float(..), px=float(..), fee=float(..) ...)
CoerceFill(e) ==
    IF FloatOf(e.sz) # "ok" THEN FloatOf(e.sz)
    ELSE IF FloatOf(e.px) # "ok" THEN FloatOf(e.px)
    ELSE FloatOf(e.fee)

Coerce(m, e) == IF m \in OrderMethods THEN CoerceOrder(e) ELSE CoerceFill(e)

\* except (KeyError, ValueError)
CaughtWhileParsing == {"KeyError", "ValueError"}

\* the for loop over the entries: acc is [records, warnings, exc]
RECURSIVE ParseFrom(_, _, _, _)
ParseFrom(m, items, i, acc) ==
    IF i > Len(items) THEN acc
    ELSE LET c == Coerce(m, items[i]) IN
         IF c = "ok"
         THEN ParseFrom(m, items, i + 1,
                        [acc EXCEPT !.records = Append(@, [oid |-> items[i].oid])])
         ELSE IF c \in CaughtWhileParsing
         THEN ParseFrom(m, items, i + 1, [acc EXCEPT !.warnings = @ + 1])
         ELSE [acc EXCEPT !.exc = c]

ParseRecords(m, items) ==
    ParseFrom(m, items, 1, [records |-> <<>>, warnings |-> 0, exc |-> NoError])

\* the elements of a metaAndAssetCtxs response: the items of a list, the
\* keys of a dict
ContextItems == <<"meta", "assetCtxs", "more", "yet_more", "and_more">>
ContextBodies == { SubSeq(ContextItems, 1, n) : n \in 0..MaxBatch }

\* get_perpetuals_asset_contexts: len(full_response) >= 2 and then
\* full_response[1], which is the second item of a list and the value under
\* the key 1 of a dict, a key no JSON object has
AssetContexts(resp) ==
    IF resp.shape = "None"
    THEN [status |-> "raised", value |-> Unset, exc |-> "TypeError", warnings |-> 0]
    ELSE IF Len(resp.data) >= 2
    THEN IF resp.shape = "list"
         THEN [status |-> "returned",
               value |-> [shape |-> "item", data |-> <<resp.data[2]>>],
               exc |-> NoError, warnings |-> 0]
         ELSE [status |-> "raised", value |-> Unset, exc |-> "KeyError",
               warnings |-> 0]
    ELSE [status |-> "returned", value |-> [shape |-> "list", data |-> <<>>],
          exc |-> NoError, warnings |-> 1]

\* what the method does with the response of _make_request
Postprocess(m, resp) ==
    IF m \in OrderMethods \cup FillMethods
    THEN IF \/ resp.shape = "None"
            \/ (resp.shape = "list" /\ m \in FillMethods)
         THEN \* response.get on None or on a list
              [status |-> "raised", value |-> Unset, exc |-> "AttributeError",
               warnings |-> 0]
         ELSE LET r == ParseRecords(m, resp.data) IN
              IF r.exc # NoError
              THEN [status |-> "raised", value |-> Unset, exc |-> r.exc,
                    warnings |-> r.warnings]
              ELSE [status |-> "returned",
                    value |-> [shape |-> "records", data |-> r.records],
                    exc |-> NoError, warnings |-> r.warnings]
    ELSE IF m \in ContextMethods
    THEN AssetContexts(resp)
    ELSE [status |-> "returned", value |-> resp, exc |-> NoError, warnings |-> 0]

\* the JSON bodies a server may answer a method with
Responses(m) ==
    IF m \in OrderMethods \cup FillMethods
    THEN { [shape |-> s, data |-> b] : s \in {"dict", "list"}, b \in Batches }
    ELSE IF m \in ContextMethods
    THEN { [shape |-> s, data |-> b] : s \in {"dict", "list"}, b \in ContextBodies }
    ELSE { [shape |-> s, data |-> <<>>] : s \in {"dict", "list"} }

(***************************************************************************)
(* _make_request: for attempt in range(self.max_retries)                   *)
(***************************************************************************)
\* connection error, timeout, raise_for_status on a non-2xx status
TransportErrors == {"ConnectionError", "Timeout", "HTTPError"}

\* a first except clause that catches every exception
CatchesEveryException(exc) == TRUE

\* the exceptions the first except clause catches
IsRequestException(exc) ==
    \/ exc \in TransportErrors
    \/ (exc = "JSONDecodeError" /\ json_error_is_request_exception)

RECURSIVE Pow2(_)
Pow2(n) == IF n <= 0 THEN 1 ELSE 2 * Pow2(n - 1)

\* a sleep of self.timeout, 30 s, in the place of the rate-limit delay
RateLimitSleepOfTimeout == [why |-> "rate_limit", ms |-> 30 * BackoffUnitMs]

\* time.sleep(self.rate_limit_delay)
RateLimitSleep == [why |-> "rate_limit", ms |-> RateLimitDelayMs]

\* a backoff that counts attempts from one: 2 ** (attempt + 1)
BackoffSleepFromOne(a) == [why |-> "backoff", ms |-> BackoffUnitMs * Pow2(a + 1)]

\* time.sleep(2 ** attempt)
BackoffSleep(a) == [why |-> "backoff", ms |-> BackoffUnitMs * Pow2(a)]

\* an off-by-one in the test of the last attempt
IsLastAttemptOffByOne == attempt = max_retries

\* if attempt == self.max_retries - 1
IsLastAttempt == attempt = max_retries - 1

\* a loop that makes one attempt more: range(self.max_retries + 1)
InRangeInclusive(a) == a <= max_retries

\* range(self.max_retries) holds a
InRange(a) == a < max_retries

\* the method raises exc
Raise(exc) ==
    /\ pc' = "raised"
    /\ error' = exc
    /\ UNCHANGED <<attempt, response, result, warnings>>

\* _make_request returns resp and the method m goes on with it
Deliver(m, resp) ==
    LET r == Postprocess(m, resp) IN
    /\ response' = resp
    /\ pc' = r.status
    /\ result' = r.value
    /\ error' = r.exc
    /\ warnings' = r.warnings
    /\ UNCHANGED attempt

\* the next iteration of the for loop; when the range is used up the
\* function falls off its end and returns None
NextIteration ==
    IF InRange(attempt + 1)
    THEN /\ pc' = "request"
         /\ attempt' = attempt + 1
         /\ UNCHANGED <<response, result, error, warnings>>
    ELSE Deliver(method, NoValue)

\* except requests.RequestException as e, after the sleeps slept so far
OnRequestException(exc, slept) ==
    IF IsLastAttempt
    THEN /\ sleeps' = slept
         /\ Raise(exc)
    ELSE /\ sleeps' = Append(slept, BackoffSleep(attempt))
         /\ NextIteration

\* except (json.JSONDecodeError, ValueError) as e: raise ValueError(...)
OnValueError(slept) ==
    /\ sleeps' = slept
    /\ Raise("ValueError")

\* an exception raised inside the try block is handled by the first except
\* clause that matches it
OnException(exc, slept) ==
    IF IsRequestException(exc)
    THEN OnRequestException(exc, slept)
    ELSE OnValueError(slept)

NoFile == [exists |-> FALSE, header |-> <<>>, rows |-> <<>>]

(***************************************************************************)
(* Actions of the client.                                                  *)
(***************************************************************************)
ClientInit ==
    /\ max_retries \in 0..MaxRetriesBound
    /\ json_error_is_request_exception \in BOOLEAN
    /\ pc = "idle"
    /\ method = "none"
    /\ user = <<>>
    /\ token_id = <<>>
    /\ oid = <<>>
    /\ cloid = <<>>
    /\ attempt = 0
    /\ transport_calls = 0
    /\ transport_failures = 0
    /\ outcome = "none"
    /\ sleeps = <<>>
    /\ response = Unset
    /\ result = Unset
    /\ error = NoError
    /\ warnings = 0
    \* no run of the exporter
    /\ x_pc = "idle"
    /\ mock = FALSE
    /\ force_start_date = <<>>
    /\ chunk_days = 30
    /\ now = 0
    /\ probe = 1
    /\ probes = <<>>
    /\ start_time = 0
    /\ end_time = 0
    /\ current_start = 0
    /\ windows = <<>>
    /\ chunk_data = Unset
    /\ all_funding_rates = <<>>
    /\ saved = <<>>
    /\ csv = NoFile
    /\ x_error = NoError

\* an address-scoped method called with an address its check refuses
RejectCall(m, u) ==
    /\ pc = "idle"
    /\ m \in AddressScopedMethods
    /\ UserAddressRejected(u)
    /\ method' = m
    /\ user' = u
    /\ Raise("ValueError")
    /\ UNCHANGED <<max_retries, json_error_is_request_exception, transport_calls,
                   transport_failures, outcome, sleeps, token_id, oid, cloid>>
    /\ UNCHANGED export_vars

\* a method whose arguments pass its check calls _make_request
StartCall(m, u) ==
    /\ pc = "idle"
    /\ IF m \in AddressScopedMethods THEN ~UserAddressRejected(u) ELSE u = <<>>
    /\ method' = m
    /\ user' = u
    /\ IF InRange(0)
       THEN /\ pc' = "request"
            /\ UNCHANGED <<attempt, response, result, error, warnings>>
       ELSE Deliver(m, NoValue)
    /\ UNCHANGED <<max_retries, json_error_is_request_exception, transport_calls,
                   transport_failures, outcome, sleeps, token_id, oid, cloid>>
    /\ UNCHANGED export_vars

\* the method m calls _make_request
EnterMakeRequest(m) ==
    IF InRange(0)
    THEN /\ pc' = "request"
         /\ UNCHANGED <<attempt, response, result, error, warnings>>
    ELSE Deliver(m, NoValue)

\* get_token_info called with a token id its check refuses
RejectTokenInfo(t) ==
    /\ pc = "idle"
    /\ TokenIdRejected(t)
    /\ method' = "get_token_info"
    /\ token_id' = t
    /\ Raise("ValueError")
    /\ UNCHANGED <<max_retries, json_error_is_request_exception, transport_calls,
                   transport_failures, outcome, sleeps, user, oid, cloid>>
    /\ UNCHANGED export_vars

\* get_token_info called with a token id that passes
StartTokenInfo(t) ==
    /\ pc = "idle"
    /\ ~TokenIdRejected(t)
    /\ method' = "get_token_info"
    /\ token_id' = t
    /\ EnterMakeRequest("get_token_info")
    /\ UNCHANGED <<max_retries, json_error_is_request_exception, transport_calls,
                   transport_failures, outcome, sleeps, user, oid, cloid>>
    /\ UNCHANGED export_vars

\* query_order_status called with neither oid nor cloid
RejectOrderStatus(o, c) ==
    /\ pc = "idle"
    /\ OrderIdentifierMissing(o, c)
    /\ method' = "query_order_status"
    /\ oid' = o
    /\ cloid' = c
    /\ Raise("ValueError")
    /\ UNCHANGED <<max_retries, json_error_is_request_exception, transport_calls,
                   transport_failures, outcome, sleeps, user, token_id>>
    /\ UNCHANGED export_vars

\* query_order_status called with an oid, a cloid or both
StartOrderStatus(o, c) ==
    /\ pc = "idle"
    /\ ~OrderIdentifierMissing(o, c)
    /\ method' = "query_order_status"
    /\ oid' = o
    /\ cloid' = c
    /\ EnterMakeRequest("query_order_status")
    /\ UNCHANGED <<max_retries, json_error_is_request_exception, transport_calls,
                   transport_failures, outcome, sleeps, user, token_id>>
    /\ UNCHANGED export_vars

\* session.post or raise_for_status raises
TransportFails(exc) ==
    /\ pc = "request"
    /\ transport_calls' = transport_calls + 1
    /\ transport_failures' = transport_failures + 1
    /\ outcome' = exc
    /\ OnException(exc, sleeps)
    /\ UNCHANGED <<max_retries, json_error_is_request_exception, method, user,
                   token_id, oid, cloid>>
    /\ UNCHANGED export_vars

\* a 2xx response whose body is not JSON: response.json() raises
RespondsMalformedJson ==
    /\ pc = "request"
    /\ transport_calls' = transport_calls + 1
    /\ outcome' = "malformed_json"
    /\ OnException("JSONDecodeError", Append(sleeps, RateLimitSleep))
    /\ UNCHANGED <<max_retries, json_error_is_request_exception, method, user,
                   token_id, oid, cloid, transport_failures>>
    /\ UNCHANGED export_vars

\* a 2xx response whose JSON is neither a dict nor a list
RespondsScalar ==
    /\ pc = "request"
    /\ transport_calls' = transport_calls + 1
    /\ outcome' = "scalar"
    /\ OnException("ValueError", Append(sleeps, RateLimitSleep))
    /\ UNCHANGED <<max_retries, json_error_is_request_exception, method, user,
                   token_id, oid, cloid, transport_failures>>
    /\ UNCHANGED export_vars

\* a 2xx response whose JSON is a dict or a list
RespondsJson(resp) ==
    /\ pc = "request"
    /\ transport_calls' = transport_calls + 1
    /\ outcome' = "json"
    /\ sleeps' = Append(sleeps, RateLimitSleep)
    /\ Deliver(method, resp)
    /\ UNCHANGED <<max_retries, json_error_is_request_exception, method, user,
                   token_id, oid, cloid, transport_failures>>
    /\ UNCHANGED export_vars

ClientNext ==
    \/ pc = "idle" /\ \E m \in AddressScopedMethods, u \in Addresses : RejectCall(m, u)
    \/ pc = "idle" /\ \E m \in Methods, u \in Addresses : StartCall(m, u)
    \/ pc = "idle" /\ \E t \in TokenIds : RejectTokenInfo(t)
    \/ pc = "idle" /\ \E t \in TokenIds : StartTokenInfo(t)
    \/ pc = "idle" /\ \E o \in Oids, c \in Cloids : RejectOrderStatus(o, c)
    \/ pc = "idle" /\ \E o \in Oids, c \in Cloids : StartOrderStatus(o, c)
    \/ \E exc \in TransportErrors : TransportFails(exc)
    \/ RespondsMalformedJson
    \/ RespondsScalar
    \/ pc = "request" /\ \E resp \in Responses(method) : RespondsJson(resp)

SpecClient == ClientInit /\ [][ClientNext]_vars

(***************************************************************************)
(* Properties of the client.                                               *)
(***************************************************************************)
Min(a, b) == IF a <= b THEN a ELSE b

BackoffCount(s) == Cardinality({i \in 1..Len(s) : s[i].why = "backoff"})

\* the last attempt succeeded and every attempt before it failed in transport
FailuresThenSuccess ==
    outcome = "json" /\ transport_failures = transport_calls - 1

\* every attempt so far failed in transport
OnlyTransportFailures ==
    transport_calls >= 1 /\ transport_failures = transport_calls

\* C1: with max_retries = M >= 1 and N transport failures followed by a
\* success, _make_request returns iff N < M, makes exactly min(N+1, M)
\* transport attempts, and when N >= M raises the failure of the last
\* attempt.  While fewer than M attempts have failed the call is still
\* trying; the M-th failure ends it with that failure as the error.
C1_RetryCount ==
    max_retries >= 1 =>
        /\ FailuresThenSuccess =>
              /\ transport_failures < max_retries
              /\ response.shape \in {"dict", "list"}
              /\ transport_calls = Min(transport_failures + 1, max_retries)
        /\ OnlyTransportFailures =>
              IF transport_failures < max_retries
              THEN pc = "request" /\ response = Unset /\ error = NoError
              ELSE /\ pc = "raised"
                   /\ error = outcome
                   /\ error \in TransportErrors
                   /\ response = Unset
                   /\ transport_calls = Min(transport_failures + 1, max_retries)

C1_Witness ==
    /\ max_retries = 3
    /\ FailuresThenSuccess
    /\ transport_failures = 2
    /\ pc = "returned"

\* C2 as claimed: an address that is not "0x" and 40 hexadecimal characters
\* is rejected by every address-scoped method with a ValueError and without a
\* transport attempt.
C2_AsClaimed ==
    (method \in AddressScopedMethods /\ ~MatchesHexAddress(user)) =>
        (pc = "raised" /\ error = "ValueError" /\ transport_calls = 0)

\* C2 amended: an address that is empty, not exactly 42 characters long or
\* not starting with "0x" is rejected by every address-scoped method with a
\* ValueError, without a transport attempt or a sleep; an address of 42
\* characters starting with "0x" is not rejected by the check, whatever its
\* other 40 characters.
C2_LengthAndPrefix ==
    method \in AddressScopedMethods =>
        IF Len(user) = 42 /\ SubSeq(user, 1, 2) = <<"0", "x">>
        THEN error = "ValueError" => transport_calls > 0
        ELSE /\ pc = "raised"
             /\ error = "ValueError"
             /\ transport_calls = 0
             /\ sleeps = <<>>
             /\ response = Unset

C2_Witness ==
    /\ method = "get_user_positions"
    /\ Len(user) = 42
    /\ SubSeq(user, 1, 2) = <<"0", "X">>
    /\ pc = "raised"

\* C3: a 2xx response whose JSON is neither a mapping nor a sequence makes
\* _make_request raise ValueError in the same attempt: one transport
\* attempt for that response, no backoff sleep, and nothing happens
\* afterwards, however many retries remain.
C3_ScalarRaisesAtOnce ==
    [][ /\ outcome' = "scalar" =>
              /\ pc' = "raised"
              /\ error' = "ValueError"
              /\ response' = Unset
              /\ transport_calls' = transport_calls + 1
              /\ BackoffCount(sleeps') = BackoffCount(sleeps)
        /\ outcome = "scalar" => UNCHANGED vars ]_vars

C3_Witness ==
    /\ outcome = "scalar"
    /\ max_retries = 3
    /\ transport_calls = 1
    /\ pc = "raised"

\* C4 as claimed: a 2xx response whose body is not JSON makes _make_request
\* raise ValueError, the error of an unexpected shape, and the request is
\* not retried.
C4_AsClaimed ==
    outcome = "malformed_json" => (pc = "raised" /\ error = "ValueError")

\* the entries of a batch that method m can coerce
Convertible(v) == v \notin {"badstr", "null"}
CoercibleBy(m, e) ==
    /\ Convertible(e.sz)
    /\ Convertible(e.px)
    /\ m \in FillMethods => Convertible(e.fee)
CoercibleEntries(m, items) ==
    LET Good(e) == CoercibleBy(m, e) IN SelectSeq(items, Good)

\* C7 as claimed: in get_open_orders, get_user_fills and
\* get_user_fills_by_time an entry whose size, price or fee cannot be
\* converted is dropped with a warning, and the other entries of the batch
\* are returned in their order: the batch is never aborted.
C7_AsClaimed ==
    (/\ method \in OrderMethods \cup FillMethods
     /\ response.shape = "dict") =>
        LET good == CoercibleEntries(method, response.data) IN
        /\ pc = "returned"
        /\ result.data = [i \in 1..Len(good) |-> [oid |-> good[i].oid]]
        /\ warnings = Len(response.data) - Len(good)

(***************************************************************************)
(* The exporter: HYPEHistoricalFundingRateFetcher.                         *)
(*                                                                         *)
(* Times are counted in units of which a day has DayMs.  A funding entry   *)
(* is a dict: its keys in order, and the values of its "time" and          *)
(* "fundingRate" keys.  A value of "time" is an int or a string.  When a   *)
(* response is a dict, list.extend adds its keys, which are strings, to    *)
(* the gathered list: an element of kind "str".                            *)
(***************************************************************************)
Days2023 == 19358       \* days from 1970-01-01 to 2023-01-01
Days2022 == 18993
Days2021 == 18628
Days2020 == 18262

\* the candidates from the earliest year up
TestDatesAscending == <<Days2020 * DayMs, Days2021 * DayMs, Days2022 * DayMs,
                        Days2023 * DayMs>>

\* test_dates
TestDates == <<Days2023 * DayMs, Days2022 * DayMs, Days2021 * DayMs,
               Days2020 * DayMs>>

\* int(datetime(2023, 1, 1).timestamp() * 1000), the default of the probe
DefaultStart == Days2023 * DayMs

StdKeys == <<"coin", "fundingRate", "premium", "time">>

\* fieldnames = ['coin', 'fundingRate', 'premium', 'time']
FallbackHeader == <<"coin", "fundingRate", "premium", "time">>

IntTime(t) == [tag |-> "int", val |-> t]
StrTime == [tag |-> "str", val |-> 0]

Entry(keys, time, rate) ==
    [kind |-> "dict", keys |-> keys, time |-> time, rate |-> rate]

\* a key of a dict response, as an element of the gathered list
StrElement == [kind |-> "str", keys |-> <<>>, time |-> StrTime, rate |-> 0]

Range(f) == {f[i] : i \in DOMAIN f}

Has(e, k) == k \in Range(e.keys)

\* the entries a server answers with
FundingEntries ==
    { Entry(StdKeys, IntTime(100), 1),
      Entry(StdKeys, IntTime(100), 2),
      Entry(StdKeys, IntTime(500), 1),
      Entry(<<"coin", "fundingRate", "premium", "time", "extra">>, IntTime(300), 1),
      Entry(StdKeys, StrTime, 1),
      Entry(<<"coin", "fundingRate">>, IntTime(0), 1) }

FundingBatches(n) ==
    UNION { [1..k -> FundingEntries] : k \in 0..n }

\* the values get_funding_history may return: a list of entries, a dict
\* (the empty one, or one with a key), or None when max_retries is 0
FundingValues(n) ==
    IF max_retries = 0 THEN {NoValue}
    ELSE { [shape |-> "list", data |-> b] : b \in FundingBatches(n) }
         \cup { [shape |-> "dict", data |-> <<>>] }
         \cup ( IF n >= 1 THEN { [shape |-> "dict", data |-> <<StrElement>>] }
                ELSE {} )

\* how a call of get_funding_history ends: max_retries = 0 makes no attempt
\* and returns None, otherwise it returns a dict or a list or raises
FundingOutcomes(n) ==
    { [status |-> "returned", value |-> v] : v \in FundingValues(n) }
    \cup ( IF max_retries = 0 THEN {}
           ELSE { [status |-> "raised", value |-> Unset] } )

\* the mocked transport of the end-to-end scenario: n entries per window,
\* their times spread over the window, in rising or falling order
MockBatch(from, to, n, rising) ==
    [i \in 1..n |->
        LET j == IF rising THEN i - 1 ELSE n - i IN
        Entry(StdKeys, IntTime(from + (j * (to - from)) \div n), j)]

\* chunk_ms = chunk_days * 24 * 60 * 60 * 1000
ChunkMs(days) == days * DayMs

\* a loop that also runs when current_start has reached end_time
LoopRunsInclusive(from, to) == from <= to

\* while current_start < end_time
LoopRuns(from, to) == from < to

\* a window that ends where it starts
ChunkEndStuck(from, chunk_ms, to) == Min(from, to)

\* the end of a window without the clamp to end_time
ChunkEndUnclamped(from, chunk_ms, to) == from + chunk_ms

\* current_end = min(current_start + chunk_ms, end_time)
ChunkEnd(from, chunk_ms, to) == Min(from + chunk_ms, to)

\* end_time=min(start_time + (24 * 60 * 60 * 1000), current_time)
SampleEnd(from, current_time) == Min(from + DayMs, current_time)

\* if chunk_data: a non-empty list or dict
Truthy(v) == v.shape \in {"list", "dict"} /\ Len(v.data) > 0

\* x.get('time', 0)
SortKey(e) == IF Has(e, "time") THEN e.time ELSE IntTime(0)

\* a < b on two keys of the same type
KeyLess(a, b) == a.tag = "int" /\ a.val < b.val

\* an insertion that puts e before the entries equal to it
InsertBeforeEqual(sorted, e) ==
    LET before == {i \in 1..Len(sorted) : KeyLess(SortKey(sorted[i]), SortKey(e))}
        n == Cardinality(before)
    IN  SubSeq(sorted, 1, n) \o <<e>> \o SubSeq(sorted, n + 1, Len(sorted))

\* the place of e in a sorted run: after every entry that is not greater
InsertSorted(sorted, e) ==
    LET notAfter == {i \in 1..Len(sorted) :
                        ~KeyLess(SortKey(e), SortKey(sorted[i]))}
        n == Cardinality(notAfter)
    IN  SubSeq(sorted, 1, n) \o <<e>> \o SubSeq(sorted, n + 1, Len(sorted))

RECURSIVE InsertionSort(_, _)
InsertionSort(sorted, rest) ==
    IF rest = <<>> THEN sorted
    ELSE InsertionSort(InsertSorted(sorted, Head(rest)), Tail(rest))

\* funding_rates.sort(key=lambda x: x.get('time', 0)): the key function
\* raises on an element that is no dict, the comparison on keys of two types
SortByTime(list) ==
    IF \E i \in 1..Len(list) : list[i].kind # "dict"
    THEN [exc |-> "AttributeError", list |-> list]
    ELSE IF \E i, j \in 1..Len(list) : SortKey(list[i]).tag # SortKey(list[j]).tag
    THEN [exc |-> "TypeError", list |-> list]
    ELSE [exc |-> NoError, list |-> InsertionSort(<<>>, list)]

\* the text of a value in a cell
CellText(e, k) ==
    CASE k = "coin" -> "HYPE"
      [] k = "fundingRate" -> ToString(e.rate)
      [] k = "premium" -> "0.0"
      [] k = "time" -> IF e.time.tag = "int" THEN ToString(e.time.val) ELSE "abc"
      [] OTHER -> "x"

\* DictWriter.writerow: a key outside fieldnames raises ValueError, a
\* missing one leaves the cell empty
RowFits(e, fieldnames) == Range(e.keys) \subseteq Range(fieldnames)
Row(e, fieldnames) ==
    [i \in 1..Len(fieldnames) |->
        IF Has(e, fieldnames[i]) THEN CellText(e, fieldnames[i]) ELSE ""]

\* the for loop of save_to_csv: rows are written until one does not fit
RECURSIVE WriteRows(_, _, _, _)
WriteRows(list, i, fieldnames, file) ==
    IF i > Len(list) THEN [exc |-> NoError, file |-> file]
    ELSE IF ~RowFits(list[i], fieldnames)
    THEN [exc |-> "ValueError", file |-> file]
    ELSE WriteRows(list, i + 1, fieldnames,
                   [file EXCEPT !.rows = Append(@, Row(list[i], fieldnames))])

\* save_to_csv that writes nothing for an empty list
SaveToCsvNoHeader(list) ==
    IF list # <<>>
    THEN WriteRows(list, 1, list[1].keys,
                   [exists |-> TRUE, header |-> list[1].keys, rows |-> <<>>])
    ELSE [exc |-> NoError, file |-> [exists |-> TRUE, header |-> <<>>, rows |-> <<>>]]

\* save_to_csv
SaveToCsv(list) ==
    IF list # <<>>
    THEN WriteRows(list, 1, list[1].keys,
                   [exists |-> TRUE, header |-> list[1].keys, rows |-> <<>>])
    ELSE [exc |-> NoError,
          file |-> [exists |-> TRUE, header |-> FallbackHeader, rows |-> <<>>]]

\* the summary: datetime.fromtimestamp(entry.get('time', 0)/1000) of the
\* first and the last entry raises on a string
SummaryRaises(list) ==
    /\ list # <<>>
    /\ \/ SortKey(list[1]).tag # "int"
       \/ SortKey(list[Len(list)]).tag # "int"

(***************************************************************************)
(* Actions of the exporter.                                                *)
(***************************************************************************)
CeilDiv(a, b) == (a + b - 1) \div b

\* if force_start_date: None and 0 are false
ForcedStartGiven == force_start_date # <<>> /\ force_start_date[1] # 0

\* datetime.now(): a day after the first candidate of the probe
NowChoices == {DefaultStart + DayMs}

ForcedChoices(t) == {<<>>, <<0>>} \cup {<<t - k>> : k \in (-1)..MaxSpan}

ChunkDayChoices == {1, 2, 400}

\* the start times a run with these arguments may come to use
PossibleStarts(forced) ==
    IF forced # <<>> /\ forced[1] # 0 THEN {forced[1]} ELSE Range(TestDates)

ExportInputs ==
    /\ mock = FALSE
    /\ max_retries \in {0, MaxRetriesBound}
    /\ now \in NowChoices
    /\ force_start_date \in ForcedChoices(now)
    /\ chunk_days \in ChunkDayChoices
    /\ \A t \in PossibleStarts(force_start_date) :
          t < now => CeilDiv(now - t, ChunkMs(chunk_days)) <= MaxWindows

\* start 2023-01-01, end 2023-03-02, chunk_days 30, the mocked transport
ScenarioInputs ==
    /\ mock = TRUE
    /\ max_retries = MaxRetriesBound
    /\ now = (Days2023 + 60) * DayMs
    /\ force_start_date = <<Days2023 * DayMs>>
    /\ chunk_days = 30

ExportInit ==
    /\ ExportInputs \/ ScenarioInputs
    /\ json_error_is_request_exception = TRUE
    /\ pc = "idle"
    /\ method = "none"
    /\ user = <<>>
    /\ token_id = <<>>
    /\ oid = <<>>
    /\ cloid = <<>>
    /\ attempt = 0
    /\ transport_calls = 0
    /\ transport_failures = 0
    /\ outcome = "none"
    /\ sleeps = <<>>
    /\ response = Unset
    /\ result = Unset
    /\ error = NoError
    /\ warnings = 0
    /\ x_pc = "start"
    /\ probe = 1
    /\ probes = <<>>
    /\ start_time = 0
    /\ end_time = 0
    /\ current_start = 0
    /\ windows = <<>>
    /\ chunk_data = Unset
    /\ all_funding_rates = <<>>
    /\ saved = <<>>
    /\ csv = NoFile
    /\ x_error = NoError

\* fetch_funding_rates_in_chunks(start_time=t, end_time=now) is entered
EnterChunks(t) ==
    /\ x_pc' = "chunks"
    /\ start_time' = t
    /\ end_time' = now
    /\ current_start' = t

\* fetch_and_save_historical_funding_rates with a start date given
UseForcedStart ==
    /\ x_pc = "start"
    /\ ForcedStartGiven
    /\ EnterChunks(force_start_date[1])
    /\ UNCHANGED <<mock, force_start_date, chunk_days, now, probe, probes, windows,
                   chunk_data,
                   all_funding_rates, saved, csv, x_error>>
    /\ UNCHANGED client_vars

\* fetch_and_save_historical_funding_rates without one:
\* find_earliest_funding_data is called
BeginProbe ==
    /\ x_pc = "start"
    /\ ~ForcedStartGiven
    /\ x_pc' = "probe"
    /\ UNCHANGED <<mock, force_start_date, chunk_days, now, probe, probes,
                   start_time, end_time, current_start, windows, chunk_data,
                   all_funding_rates, saved, csv, x_error>>
    /\ UNCHANGED client_vars

\* one iteration of the loop over test_dates, the request ending as o
ProbeCandidate(o) ==
    /\ x_pc = "probe"
    /\ LET t == TestDates[probe] IN
       /\ probes' = Append(probes, [from |-> t, to |-> SampleEnd(t, now),
                                    status |-> o.status,
                                    len |-> Len(o.value.data)])
       /\ IF o.status = "returned" /\ Truthy(o.value)
          THEN EnterChunks(t) /\ UNCHANGED probe
          ELSE IF probe < Len(TestDates)
          THEN /\ probe' = probe + 1
               /\ UNCHANGED <<x_pc, start_time, end_time, current_start>>
          ELSE EnterChunks(DefaultStart) /\ UNCHANGED probe
    /\ UNCHANGED <<mock, force_start_date, chunk_days, now, windows, chunk_data,
                   all_funding_rates, saved, csv, x_error>>
    /\ UNCHANGED client_vars

\* an except branch that gives up what was gathered so far
GatheredLostOnFailure(list, o) ==
    IF o.status = "raised" THEN <<>>
    ELSE IF Truthy(o.value) THEN list \o o.value.data ELSE list

\* the try block of the loop: if chunk_data: all_funding_rates.extend(..);
\* the except branch logs and leaves the list alone
Gathered(list, o) ==
    IF o.status = "returned" /\ Truthy(o.value)
    THEN list \o o.value.data
    ELSE list

\* one iteration of the while loop, the request for the window ending as o
FetchChunk(o) ==
    /\ x_pc = "chunks"
    /\ LoopRuns(current_start, end_time)
    /\ LET current_end == ChunkEnd(current_start, ChunkMs(chunk_days), end_time) IN
       /\ windows' = Append(windows, [from |-> current_start, to |-> current_end,
                                      status |-> o.status])
       /\ current_start' = current_end
    /\ chunk_data' = IF o.status = "returned" THEN o.value ELSE Unset
    /\ all_funding_rates' = Gathered(all_funding_rates, o)
    /\ UNCHANGED <<x_pc, mock, force_start_date, chunk_days, now, probe, probes,
                   start_time, end_time, saved, csv, x_error>>
    /\ UNCHANGED client_vars

\* the answers the transport gives for the window at current_start
ChunkOutcomes ==
    IF mock
    THEN { [status |-> "returned",
            value |-> [shape |-> "list",
                       data |-> MockBatch(current_start,
                                          ChunkEnd(current_start, ChunkMs(chunk_days),
                                                   end_time), 10, r)]] :
             r \in BOOLEAN }
    ELSE FundingOutcomes(Min(MaxPerWindow, MaxEntries - Len(all_funding_rates)))

\* after the loop: the sort, save_to_csv and the summary
SortAndSave ==
    /\ x_pc = "chunks"
    /\ ~LoopRuns(current_start, end_time)
    /\ LET s == SortByTime(all_funding_rates)
           w == SaveToCsv(s.list)
       IN  IF s.exc # NoError
           THEN /\ x_pc' = "failed"
                /\ x_error' = s.exc
                /\ UNCHANGED <<saved, csv>>
           ELSE /\ saved' = <<s.list>>
                /\ csv' = w.file
                /\ IF w.exc # NoError
                   THEN x_pc' = "failed" /\ x_error' = w.exc
                   ELSE IF SummaryRaises(s.list)
                   THEN x_pc' = "failed" /\ x_error' = "TypeError"
                   ELSE x_pc' = "done" /\ UNCHANGED x_error
    /\ UNCHANGED <<mock, force_start_date, chunk_days, now, probe, probes,
                   start_time, end_time, current_start, windows, chunk_data,
                   all_funding_rates>>
    /\ UNCHANGED client_vars

ExportNext ==
    \/ UseForcedStart
    \/ BeginProbe
    \/ x_pc = "probe" /\ \E o \in FundingOutcomes(1) : ProbeCandidate(o)
    \/ x_pc = "chunks" /\ \E o \in ChunkOutcomes : FetchChunk(o)
    \/ SortAndSave

SpecExport == ExportInit /\ [][ExportNext]_vars

\* the sort, save_to_csv and the summary can run: the loop is over
SortAndSaveEnabled == x_pc = "chunks" /\ ~LoopRuns(current_start, end_time)

\* the runs with a start date given, which go straight to
\* fetch_funding_rates_in_chunks
ChunksInit == ExportInit /\ ForcedStartGiven

ChunksNext ==
    \/ UseForcedStart
    \/ x_pc = "chunks" /\ \E o \in ChunkOutcomes : FetchChunk(o)
    \/ SortAndSave

\* the exporter is one sequential program and each of its requests ends (the
\* session's timeout, the bounded retries): a step that can be taken is
\* taken.  The weak fairness of SortAndSave is written out, with the
\* condition under which it is enabled.
SpecChunksFair ==
    /\ ChunksInit
    /\ [][ChunksNext]_vars
    /\ WF_vars(UseForcedStart)
    /\ WF_vars(x_pc = "chunks" /\ \E o \in ChunkOutcomes : FetchChunk(o))
    /\ ([]<>(~SortAndSaveEnabled) \/ []<><<SortAndSave>>_vars)

(***************************************************************************)
(* The loop of fetch_funding_rates_in_chunks with each get_funding_history  *)
(* call run through _make_request one transport attempt at a time.  The    *)
(* client variables describe the call in flight; a window is recorded when *)
(* its call is made, with the request data, and completed when the call    *)
(* ends.                                                                   *)
(***************************************************************************)
\* data = {"type": "fundingHistory", "coin": coin, "startTime": start_time},
\* and "endTime" if end_time (<<>> for None) is not None
FundingHistoryData(start, end) ==
    [startTime |-> start, endTime |-> IF end # <<>> THEN <<end[1]>> ELSE <<>>]

\* the window whose call is in flight, if any, is the last one
CallInFlight == windows # <<>> /\ windows[Len(windows)].status = "pending"

\* self.client.get_funding_history(coin, start_time=current_start,
\* end_time=current_end) is called
CallFundingHistory ==
    /\ x_pc = "chunks"
    /\ pc = "idle"
    /\ LoopRuns(current_start, end_time)
    /\ LET current_end == ChunkEnd(current_start, ChunkMs(chunk_days), end_time)
           data == FundingHistoryData(current_start, <<current_end>>)
       IN  windows' = Append(windows,
                             [from |-> current_start, to |-> current_end,
                              status |-> "pending", startTime |-> data.startTime,
                              endTime |-> data.endTime, attempts |-> 0])
    /\ method' = "get_funding_history"
    /\ EnterMakeRequest("get_funding_history")
    /\ UNCHANGED <<max_retries, json_error_is_request_exception, user, token_id,
                   oid, cloid, transport_calls, transport_failures, outcome, sleeps>>
    /\ UNCHANGED <<x_pc, mock, force_start_date, chunk_days, now, probe, probes,
                   start_time, end_time, current_start, chunk_data,
                   all_funding_rates, saved, csv, x_error>>

\* the call has returned or raised: the rest of the loop body, after which
\* the client is idle again
ChunkCallEnds ==
    /\ x_pc = "chunks"
    /\ pc \in {"returned", "raised"}
    /\ CallInFlight
    /\ LET n == Len(windows)
           o == [status |-> pc, value |-> result]
       IN  /\ windows' = [windows EXCEPT ![n].status = pc,
                                         ![n].attempts = transport_calls]
           /\ current_start' = windows[n].to
           /\ chunk_data' = IF pc = "returned" THEN result ELSE Unset
           /\ all_funding_rates' = Gathered(all_funding_rates, o)
    /\ pc' = "idle"
    /\ method' = "none"
    /\ attempt' = 0
    /\ transport_calls' = 0
    /\ transport_failures' = 0
    /\ outcome' = "none"
    /\ sleeps' = <<>>
    /\ response' = Unset
    /\ result' = Unset
    /\ error' = NoError
    /\ warnings' = 0
    /\ UNCHANGED <<max_retries, json_error_is_request_exception, user, token_id,
                   oid, cloid>>
    /\ UNCHANGED <<x_pc, mock, force_start_date, chunk_days, now, probe, probes,
                   start_time, end_time, saved, csv, x_error>>

WindowCallsInit == ExportInit /\ ForcedStartGiven /\ ~mock

WindowCallsNext ==
    \/ UseForcedStart
    \/ CallFundingHistory
    \/ \E exc \in TransportErrors : TransportFails(exc)
    \/ RespondsMalformedJson
    \/ RespondsScalar
    \/ pc = "request" /\ \E resp \in Responses(method) : RespondsJson(resp)
    \/ ChunkCallEnds
    \/ SortAndSave

SpecWindowCalls == WindowCallsInit /\ [][WindowCallsNext]_vars

(***************************************************************************)
(* Properties of the exporter.                                             *)
(***************************************************************************)
Terminated == x_pc \in {"done", "failed"}

\* the very first request of the run raised
FirstCallRaised ==
    IF probes # <<>> THEN probes[1].status = "raised"
    ELSE windows # <<>> /\ windows[1].status = "raised"

\* C5 as claimed: every run of fetch_and_save_historical_funding_rates ends
\* with a CSV written, populated or header-only, whatever windows fail and
\* whatever the entries hold; the run fails only when the very first call
\* found the API unavailable (no run of the model has a caller error).
C5_AsClaimed ==
    /\ Terminated => (csv.exists \/ FirstCallRaised)
    /\ x_pc = "failed" => FirstCallRaised

\* the loop of fetch_funding_rates_in_chunks is over
LoopOver == Terminated \/ (x_pc = "chunks" /\ current_start >= end_time)

\* C6: for start < end and chunk_days >= 1 the windows requested by
\* fetch_funding_rates_in_chunks tile [start, end): the first starts at
\* start, each next one starts where the one before ended, none is empty or
\* longer than chunk_ms, and once the loop is over the last ends at end and
\* there are ceil((end - start) / chunk_ms) of them.
C6_WindowsTile ==
    (x_pc \in {"chunks", "done", "failed"} /\ start_time < end_time) =>
        LET n == Len(windows)
            chunk_ms == chunk_days * DayMs
            span == end_time - start_time
        IN  /\ n >= 1 => windows[1].from = start_time
            /\ \A i \in 1..(n - 1) : windows[i + 1].from = windows[i].to
            /\ \A i \in 1..n :
                  /\ windows[i].from < windows[i].to
                  /\ windows[i].to - windows[i].from <= chunk_ms
                  /\ windows[i].to <= end_time
            /\ current_start = IF n = 0 THEN start_time ELSE windows[n].to
            /\ LoopOver =>
                  /\ n >= 1
                  /\ windows[n].to = end_time
                  /\ n * chunk_ms >= span
                  /\ (n - 1) * chunk_ms < span

C6_Witness ==
    /\ x_pc = "done"
    /\ Len(windows) = 3
    /\ windows[3].to - windows[3].from < chunk_days * DayMs
    /\ windows[1].to - windows[1].from = chunk_days * DayMs

\* the entries of list whose sort key is k, in their order
WithKey(list, k) ==
    LET HasKey(e) == SortKey(e) = k IN SelectSeq(list, HasKey)

\* C8: the list handed to save_to_csv holds the entries gathered from the
\* windows, each as often as it was gathered, in rising order of "time" (0
\* for an entry without one), and entries of equal time in the order in
\* which they arrived.
C8_StableSortByTime ==
    saved # <<>> =>
        LET out == saved[1] IN
        /\ Len(out) = Len(all_funding_rates)
        /\ \A i, j \in 1..Len(out) :
              i < j => ~KeyLess(SortKey(out[j]), SortKey(out[i]))
        /\ \A i \in 1..Len(all_funding_rates) :
              LET k == SortKey(all_funding_rates[i]) IN
              WithKey(out, k) = WithKey(all_funding_rates, k)

C8_Witness ==
    /\ saved # <<>>
    /\ all_funding_rates = << Entry(StdKeys, IntTime(500), 1),
                              Entry(StdKeys, IntTime(100), 1),
                              Entry(StdKeys, IntTime(100), 2) >>
    /\ saved[1] = << Entry(StdKeys, IntTime(100), 1),
                     Entry(StdKeys, IntTime(100), 2),
                     Entry(StdKeys, IntTime(500), 1) >>

\* the rows of the file are the entries of list, in order, under header
RowsAre(list, header) ==
    /\ Len(csv.rows) = Len(list)
    /\ \A i \in 1..Len(list) :
          /\ Len(csv.rows[i]) = Len(header)
          /\ \A c \in 1..Len(header) :
                header[c] = "time" => csv.rows[i][c] = ToString(list[i].time.val)

TimesRise(list) ==
    \A i \in 1..(Len(list) - 1) : list[i].time.val <= list[i + 1].time.val

\* C9 as claimed: start 2023-01-01, end 2023-03-02 and chunk_days 30 make
\* the exporter request 3 windows, and with 10 entries per window the CSV
\* holds 30 sorted rows under the header of the entries' keys.
C9_AsClaimed ==
    (mock /\ Terminated) =>
        /\ x_pc = "done"
        /\ Len(windows) = 3
        /\ csv.header = StdKeys
        /\ Len(csv.rows) = 30
        /\ TimesRise(saved[1])
        /\ RowsAre(saved[1], StdKeys)

\* C9 amended: the 60 days from 2023-01-01 to 2023-03-02 are exactly two
\* windows of 30 days, with no remainder: the exporter requests 2 windows,
\* and with 10 entries per window the CSV holds 20 sorted rows under the
\* header of the entries' keys.
C9_TwoWindows ==
    mock =>
        /\ Len(windows) <= 2
        /\ x_pc # "failed"
        /\ x_pc = "done" =>
              /\ windows =
                    << [from |-> 19358 * DayMs, to |-> (19358 + 30) * DayMs,
                        status |-> "returned"],
                       [from |-> (19358 + 30) * DayMs, to |-> (19358 + 60) * DayMs,
                        status |-> "returned"] >>
              /\ csv.exists
              /\ csv.header = <<"coin", "fundingRate", "premium", "time">>
              /\ Len(csv.rows) = 20
              /\ Len(saved[1]) = 20
              /\ TimesRise(saved[1])
              /\ RowsAre(saved[1], csv.header)

C9_Witness ==
    /\ mock
    /\ x_pc = "done"
    /\ Len(csv.rows) = 20
    /\ all_funding_rates[1].time.val > all_funding_rates[10].time.val
    /\ saved[1][1].time.val = 19358 * DayMs
    /\ saved[1][20].time.val > (19358 + 30) * DayMs

\* C10: save_to_csv called with no entry writes a file that holds the
\* header coin, fundingRate, premium, time and no row, and returns.
C10_EmptyExport ==
    saved = << <<>> >> =>
        /\ csv = [exists |-> TRUE,
                  header |-> <<"coin", "fundingRate", "premium", "time">>,
                  rows |-> <<>>]
        /\ x_pc = "done"
        /\ x_error = NoError

C10_Witness ==
    /\ saved = << <<>> >>
    /\ x_pc = "done"
    /\ Len(windows) = 2
    /\ all_funding_rates = <<>>

\* C11 as claimed: save_to_csv called with a non-empty list writes the keys
\* of the first entry as the header and then one row per entry, in order,
\* and an entry whose keys differ from the first entry's, by an extra or a
\* missing key, raises no error.
C11_AsClaimed ==
    (saved # <<>> /\ saved[1] # <<>>) =>
        /\ csv.exists
        /\ csv.header = saved[1][1].keys
        /\ Len(csv.rows) = Len(saved[1])
        /\ x_error # "ValueError"

\* C12: get_token_info called with a token id that is not exactly 34
\* characters long or does not start with "0x", and query_order_status
\* called with neither oid nor cloid, raise ValueError without a transport
\* attempt, a loop iteration, a backoff sleep or a rate-limit sleep.
C12_CallerErrorsBeforeTransport ==
    LET Rejected == /\ pc = "raised"
                    /\ error = "ValueError"
                    /\ transport_calls = 0
                    /\ attempt = 0
                    /\ sleeps = <<>>
                    /\ response = Unset
    IN  /\ ( method = "get_token_info"
             /\ ~(Len(token_id) = 34 /\ SubSeq(token_id, 1, 2) = <<"0", "x">>) )
           => Rejected
        /\ (method = "query_order_status" /\ oid = <<>> /\ cloid = <<>>)
           => Rejected

C12_Witness ==
    /\ method = "get_token_info"
    /\ Len(token_id) = 35
    /\ SubSeq(token_id, 1, 2) = <<"0", "x">>
    /\ pc = "raised"
    /\ max_retries = 3

\* query_order_status has been refused
C12_OrderStatusRefused ==
    method = "query_order_status" /\ pc = "raised" /\ transport_calls = 0

\* C13 as claimed: get_perpetuals_asset_contexts returns the second item of
\* the response when the response is a list of at least 2 items; for every
\* other dict or list that _make_request returns, a shorter list or a dict
\* of any size, it returns an empty list with one warning and raises nothing.
C13_AsClaimed ==
    (method = "get_perpetuals_asset_contexts" /\ response.shape \in {"dict", "list"}) =>
        IF response.shape = "list" /\ Len(response.data) >= 2
        THEN /\ pc = "returned"
             /\ result = [shape |-> "item", data |-> <<response.data[2]>>]
        ELSE /\ pc = "returned"
             /\ result = [shape |-> "list", data |-> <<>>]
             /\ warnings = 1
             /\ error = NoError

\* the backoff sleeps of the call, in order
Backoffs ==
    LET IsBackoff(x) == x.why = "backoff" IN SelectSeq(sleeps, IsBackoff)

\* C14: the backoff sleeps of a call of _make_request are 1 s, 2 s, 4 s, ...
\* in this order, the one after the failed attempt with index a being 2^a
\* seconds; there is one between every two attempts and none else: as many
\* as attempts while the next attempt is due, one less than attempts once
\* the call has ended, and so none after the last, exhausted attempt.
C14_BackoffDoubles ==
    LET b == Backoffs IN
    /\ Len(b) >= 1 => b[1].ms = 1000
    /\ \A i \in 1..(Len(b) - 1) :
          /\ b[i + 1].ms = 2 * b[i].ms
          /\ b[i].ms <= b[i + 1].ms
    /\ pc = "request" => (Len(b) = transport_calls /\ transport_calls < max_retries)
    /\ (pc \in {"returned", "raised"} /\ transport_calls >= 1)
          => Len(b) = transport_calls - 1
    /\ transport_calls = 0 => b = <<>>

C14_Witness ==
    /\ max_retries = 3
    /\ pc = "raised"
    /\ transport_failures = 3
    /\ sleeps = << [why |-> "backoff", ms |-> 1000], [why |-> "backoff", ms |-> 2000] >>

RateLimitCount(s) == Cardinality({i \in 1..Len(s) : s[i].why = "rate_limit"})

\* C15: the step in which _make_request returns a dict or a list is the
\* successful transport attempt followed by exactly one sleep of
\* rate_limit_delay (0.1 s), the last sleep before the return, on the first
\* attempt as after retries; an attempt that fails in transport adds no
\* rate-limit sleep.
C15_RateLimitSleepBeforeReturn ==
    [][ /\ (response = Unset /\ response'.shape \in {"dict", "list"}) =>
              /\ transport_calls' = transport_calls + 1
              /\ transport_failures' = transport_failures
              /\ outcome' = "json"
              /\ sleeps' = Append(sleeps, [why |-> "rate_limit", ms |-> 100])
        /\ transport_failures' = transport_failures + 1 =>
              RateLimitCount(sleeps') = RateLimitCount(sleeps)
        /\ response # Unset => UNCHANGED sleeps ]_vars

C15_Witness ==
    /\ pc = "returned"
    /\ response.shape = "list"
    /\ transport_failures = 2
    /\ sleeps = << [why |-> "backoff", ms |-> 1000], [why |-> "backoff", ms |-> 2000],
                   [why |-> "rate_limit", ms |-> 100] >>

\* C16: every iteration of the loop of fetch_funding_rates_in_chunks
\* requests the window at current_start, once, and moves on to its end
\* whether the request failed or not; a failed window leaves the gathered
\* list as it was and a successful one appends what it returned, so that
\* the list is the concatenation, in fetch order, of what the successful
\* windows returned; nothing else changes the list, and a failure does not
\* end the run.
C16_FailedWindowSkipped ==
    [][ /\ windows' # windows =>
              LET w == windows'[Len(windows')] IN
              /\ windows' = Append(windows, w)
              /\ w.from = current_start
              /\ w.from < w.to
              /\ current_start' = w.to
              /\ x_pc' = "chunks"
              /\ w.status \in {"returned", "raised"}
              /\ w.status = "raised" => all_funding_rates' = all_funding_rates
              /\ w.status = "returned" =>
                    all_funding_rates' = all_funding_rates \o chunk_data'.data
        /\ windows' = windows => all_funding_rates' = all_funding_rates
        /\ (x_pc = "chunks" /\ current_start < end_time) => windows' # windows
      ]_vars

\* a run in which the middle window of three failed
C16_Witness ==
    /\ x_pc = "done"
    /\ Len(windows) = 3
    /\ windows[1].status = "returned"
    /\ windows[2].status = "raised"
    /\ windows[3].status = "returned"
    /\ windows[3].to = end_time
    /\ Len(all_funding_rates) = 3
    /\ Len(chunk_data.data) = 1
    /\ Len(csv.rows) = 3

\* the sample of probe i held at least one entry
SampleFound(i) == probes[i].status = "returned" /\ probes[i].len >= 1

\* C17: find_earliest_funding_data probes 2023-01-01, 2022-01-01,
\* 2021-01-01, 2020-01-01 in this order, each with one sample window from
\* the candidate to 24 hours later (to now, if that is sooner); a candidate
\* whose sample is empty or whose request raises is passed over; the first
\* candidate whose sample holds an entry becomes the start and no later
\* candidate is probed; when none does, the start is 2023-01-01; the probe
\* never ends the run.
C17_ProbeOrder ==
    LET n == Len(probes)
        candidates == <<19358 * DayMs, 18993 * DayMs, 18628 * DayMs, 18262 * DayMs>>
    IN  /\ n <= 4
        /\ \A i \in 1..n :
              /\ probes[i].from = candidates[i]
              /\ probes[i].to = IF candidates[i] + DayMs <= now
                                THEN candidates[i] + DayMs ELSE now
              /\ i < n => ~SampleFound(i)
        /\ x_pc = "probe" =>
              /\ x_error = NoError
              /\ n < 4
              /\ \A i \in 1..n : ~SampleFound(i)
        /\ (x_pc \in {"chunks", "done", "failed"} /\ n >= 1) =>
              IF SampleFound(n)
              THEN start_time = candidates[n]
              ELSE n = 4 /\ start_time = 19358 * DayMs
        /\ (x_pc \in {"chunks", "done", "failed"} /\ n = 0) =>
              (force_start_date # <<>> /\ start_time = force_start_date[1])

\* the first two candidates gave nothing, the third had data
C17_Witness ==
    /\ Len(probes) = 3
    /\ probes[1].status = "returned" /\ probes[1].len = 0
    /\ probes[1].to - probes[1].from = DayMs
    /\ probes[2].status = "raised"
    /\ SampleFound(3)
    /\ start_time = 18628 * DayMs
    /\ x_pc = "done"

\* no candidate had data: the default is used
C17_DefaultUsed ==
    /\ Len(probes) = 4
    /\ ~SampleFound(4)
    /\ x_pc = "done"
    /\ start_time = 19358 * DayMs

\* C18 as claimed: whenever force_start_date is given, any integer of
\* milliseconds, 0 included, the run makes no probe request and its first
\* window starts at exactly that value.
C18_AsClaimed ==
    force_start_date # <<>> =>
        /\ probes = <<>>
        /\ x_pc # "probe"
        /\ x_pc \in {"chunks", "done", "failed"} => start_time = force_start_date[1]
        /\ windows # <<>> => windows[1].from = force_start_date[1]

\* C19 as claimed: for every max_retries, 0 included, a call that reaches
\* _make_request ends either with a dict or a list returned after at least
\* one transport attempt, or with an error raised by _make_request; it never
\* returns None and never returns without an attempt.
C19_AsClaimed ==
    /\ response # Unset =>
          /\ response.shape \in {"dict", "list"}
          /\ transport_calls >= 1
    /\ (pc \in {"returned", "raised"} /\ response = Unset) =>
          (error # NoError /\ (transport_calls >= 1 \/ error = "ValueError"))

\* C20: fetch_funding_rates_in_chunks terminates for every chunk_days >= 1
\* and every start_time and end_time: each iteration of its loop moves
\* current_start strictly forward and not beyond end_time, the loop is left
\* with current_start = end_time when start_time < end_time, and when
\* start_time >= end_time no window is requested and nothing is gathered;
\* hence every run comes to its end.
C20_ChunksTerminate ==
    /\ [][ windows' # windows =>
              /\ current_start < current_start'
              /\ current_start' <= end_time ]_vars
    /\ [](x_pc \in {"chunks", "done", "failed"} =>
              /\ start_time < end_time =>
                    /\ start_time <= current_start
                    /\ current_start <= end_time
                    /\ Terminated => current_start = end_time
              /\ start_time >= end_time =>
                    /\ windows = <<>>
                    /\ current_start = start_time
                    /\ all_funding_rates = <<>>
                    /\ Terminated => saved = << <<>> >>)
    /\ <>Terminated

\* a run of three windows has ended
C20_Witness ==
    /\ Terminated
    /\ Len(windows) = 3
    /\ current_start = end_time
    /\ chunk_days = 1

\* a run whose start is not before its end has ended
C20_NothingToFetch ==
    /\ Terminated
    /\ start_time > end_time
    /\ windows = <<>>

RECURSIVE AttemptsFrom(_)
\* the transport attempts of the windows from the i-th on
AttemptsFrom(i) ==
    IF i > Len(windows) THEN 0 ELSE windows[i].attempts + AttemptsFrom(i + 1)

\* C21: each window of fetch_funding_rates_in_chunks is one
\* get_funding_history call whose startTime and endTime are the window's
\* bounds, with start_time <= startTime < endTime <= end_time; with
\* max_retries = M >= 1 the call makes between 1 and M transport attempts,
\* so that a run makes at most M attempts for each of its windows; the
\* windows requested lie one after the other, so none is requested again.
C21_OneCallPerWindow ==
    LET n == Len(windows) IN
    /\ \A i \in 1..n :
          LET w == windows[i] IN
          /\ w.startTime = w.from
          /\ w.endTime = <<w.to>>
          /\ start_time <= w.startTime
          /\ w.startTime < w.endTime[1]
          /\ w.endTime[1] <= end_time
          /\ w.status = "pending" => i = n
          /\ (w.status # "pending" /\ max_retries >= 1) =>
                (1 <= w.attempts /\ w.attempts <= max_retries)
          /\ \A j \in 1..n : i < j => w.to <= windows[j].from
    /\ pc # "idle" =>
          /\ CallInFlight
          /\ method = "get_funding_history"
          /\ transport_calls <= max_retries
          /\ current_start = windows[n].from
    /\ (pc = "idle" /\ n >= 1) =>
          (~CallInFlight /\ current_start = windows[n].to)
    /\ max_retries >= 1 =>
          AttemptsFrom(1) + transport_calls <= n * max_retries

\* a run of two windows: the first call failed on every attempt, the second
\* returned on its second
C21_Witness ==
    /\ x_pc = "done"
    /\ max_retries = 3
    /\ Len(windows) = 2
    /\ windows[1].status = "raised" /\ windows[1].attempts = 3
    /\ windows[2].status = "returned" /\ windows[2].attempts = 2
    /\ windows[2].endTime = <<end_time>>

====
